---- MODULE Spec2Model ----
(***************************************************************************)
(* Model of src/components/HeartParticleSystem.tsx (with the audioEnabled  *)
(* toggle of src/App.tsx): the useFrame callback (beat phases, the         *)
(* beatTriggered latch, the particle integrator), the HeartAudioSynth      *)
(* engine (constructor outcome, resume, playMagicBurst, playGrain and its  *)
(* cleanup setTimeout) and the passing of time.                            *)
(*                                                                         *)
(* Units.  Time is in centiseconds (cs): cycleLength 2.0 s = 200,          *)
(* expandDuration 0.16 s = 16.  Positions, velocities, scales, eases,      *)
(* frictions and energyBurst are fixed-point thousandths (1.15 = 1150);    *)
(* a product is truncated toward zero where Float32 arithmetic rounds.     *)
(* A Math.random() result is a tenth: the draw d stands for d / 10.        *)
(***************************************************************************)
EXTENDS Integers, Sequences, FiniteSets

VARIABLES
    clock,          \* elapsed seconds of the render clock, the audio clock and the timer clock (cs)
    audioEnabled,   \* App.tsx state, the audioEnabled prop
    synth,          \* audioRef.current: [ctx, masterGain, noiseBuffer: BOOLEAN (non-null), state]
    beatTriggered,  \* beatTriggered.current
    grains,         \* pending cleanup timers in firing order, one per grain whose nodes are connected
    particles,      \* positions, simData and the color / size attributes, one record per particle
    rotation,       \* pointsRef.current.rotation (y, z) in thousandths of a radian
    needsUpdate,    \* geometry.attributes.position.needsUpdate
    rand,           \* the results Math.random() gives at each call site
    obs,            \* observation of the frames run so far (not program state)
    disposed        \* observation of the last cleanup: its time and the grains it disconnected

vars == <<clock, audioEnabled, synth, beatTriggered, grains, particles,
          rotation, needsUpdate, rand, obs, disposed>>

(***************************************************************************)
(* Bounds of the model.                                                    *)
(***************************************************************************)
\* elapsed time is followed up to MaxTime cs (2.25 beat cycles)
MaxTime ==
    450
\* number of particles modelled (PARTICLE_COUNT is 12000)
NumParticles ==
    1
\* a run that studies the integrator mounts ParticleWindow cs before MaxTime
ParticleWindow ==
    64

\* steps by which the clock can advance between two events: denser than,
\* equal to and sparser than the Expand phase, and a whole cycle
TickSteps == {8, 16, 200}

\* the clock advances from one multiple of the smallest step to another,
\* stopping on the way at every time a timer is due
TickGrid == CHOOSE g \in TickSteps : \A step \in TickSteps : step % g = 0

Axes == 1..3

(***************************************************************************)
(* Fixed-point arithmetic.                                                 *)
(***************************************************************************)
\* 1.0 in thousandths
Unit == 10 * 10 * 10

Trunc(a, b) == IF a >= 0 THEN a \div b ELSE -((-a) \div b)

Mul(a, b) == Trunc(a * b, Unit)

Min(a, b) == IF a <= b THEN a ELSE b

(***************************************************************************)
(* Beat oscillator: lines 290-318 of the useFrame callback.                *)
(***************************************************************************)
cycleLength ==
    200
expandDuration ==
    16
contractDuration ==
    16

TCycle(time) == time % cycleLength

\* variant: the Expand test written `<=`
InExpandLax(tCycle) == tCycle <= expandDuration

\* the branch `tCycle < expandDuration`
InExpand(tCycle) == tCycle < expandDuration

\* the branch `tCycle < (expandDuration + contractDuration)`
InContract(tCycle) ==
    ~InExpand(tCycle) /\ tCycle < expandDuration + contractDuration

Phase(tCycle) ==
    IF InExpand(tCycle) THEN "Expand"
    ELSE IF InContract(tCycle) THEN "Contract"
    ELSE "Rest"

Cube(x) == x * x * x

\* 0.90 + 0.10 * (1 - exp(-5p)) + 0.01 * sin(6 pi p), p = (tCycle - 0.32) / 1.68,
\* for tCycle = 0.32, 0.33, ..., 1.99, to the nearest thousandth
RestScale ==
    << 900, 904, 908, 912, 916, 919, 923, 926, 929, 932, 935, 937, 940, 942,
       944, 946, 948, 949, 950, 952, 953, 954, 954, 955, 955, 956, 956, 956,
       957, 957, 957, 957, 957, 957, 957, 958, 958, 958, 959, 959, 960, 961,
       961, 962, 963, 964, 966, 967, 968, 970, 971, 973, 974, 976, 978, 979,
       981, 983, 984, 986, 988, 989, 990, 992, 993, 994, 995, 996, 997, 997,
       998, 998, 998, 998, 998, 998, 997, 997, 996, 996, 995, 994, 994, 993,
       992, 991, 990, 989, 988, 988, 987, 986, 986, 985, 985, 985, 985, 984,
       985, 985, 985, 986, 986, 987, 988, 989, 990, 991, 992, 993, 994, 995,
       996, 998, 999, 1000, 1001, 1002, 1003, 1004, 1005, 1006, 1006, 1007, 1007, 1008,
       1008, 1008, 1008, 1007, 1007, 1006, 1006, 1005, 1004, 1004, 1003, 1002, 1001, 1000,
       998, 997, 996, 995, 994, 993, 992, 992, 991, 990, 990, 989, 989, 989,
       989, 989, 989, 990, 990, 991, 991, 992, 993, 994, 995, 996, 997, 998 >>

\* beatScale of a frame at tCycle
BeatScale(tCycle) ==
    IF InExpand(tCycle)
    THEN Unit + Trunc(150 * (Cube(expandDuration) - Cube(expandDuration - tCycle)),
                      Cube(expandDuration))
    ELSE IF InContract(tCycle)
    THEN 1150 - Trunc(250 * Cube(tCycle - expandDuration), Cube(contractDuration))
    ELSE RestScale[tCycle - (expandDuration + contractDuration) + 1]

\* energyBurst of a frame at tCycle: 0.8 in Expand, else its initial 0
EnergyBurst(tCycle) == IF InExpand(tCycle) THEN 800 ELSE 0

\* variant: the burst test without `!beatTriggered.current`
FiresBurstUnlatched(tCycle, audio, latch) == InExpand(tCycle) /\ audio

\* `audioEnabled && !beatTriggered.current` inside the Expand branch
FiresBurst(tCycle, audio, latch) == InExpand(tCycle) /\ audio /\ ~latch

\* variant: the Contract branch does not clear the latch
LatchAfterStuck(tCycle, audio, latch) ==
    IF InExpand(tCycle) THEN (latch \/ audio)
    ELSE IF InContract(tCycle) THEN latch
    ELSE FALSE

\* variant: the Expand branch does not set the latch
LatchAfterUnlatched(tCycle, audio, latch) ==
    IF InExpand(tCycle) THEN latch ELSE FALSE

\* beatTriggered.current after the frame: set with the burst, cleared in
\* Contract and in Rest
LatchAfter(tCycle, audio, latch) ==
    IF InExpand(tCycle) THEN (latch \/ audio) ELSE FALSE

(***************************************************************************)
(* HeartAudioSynth: constructor outcome, resume, playGrain, playMagicBurst.*)
(***************************************************************************)
\* `const density = 40`
density ==
    40

\* The engine after the constructor (lines 29-49).  The try block assigns ctx,
\* masterGain and noiseBuffer in that order, so a failure leaves a prefix of
\* them set; a fresh context is suspended or running by the autoplay policy.
SynthStates ==
    { s \in [ctx : BOOLEAN, masterGain : BOOLEAN, noiseBuffer : BOOLEAN,
             state : {"none", "suspended", "running"}] :
        /\ (s.masterGain => s.ctx)
        /\ (s.noiseBuffer => s.masterGain)
        /\ (s.state = "none") = (~s.ctx) }

Ready(s) == s.ctx /\ s.masterGain /\ s.noiseBuffer

\* resume() (lines 51-55)
Resume(s) ==
    IF s.ctx /\ s.state = "suspended" THEN [s EXCEPT !.state = "running"] ELSE s

\* `const dur = 0.1 + Math.random() * 0.3`
GrainDur(d) == 10 + 3 * d

\* variant: the scatter written t * 0.7
BurstOffsetWide(d) == 7 * d

\* `const offset = t * 0.6`
BurstOffset(d) == 6 * d

\* stop(startTime + dur + 0.1) of noiseSrc, carrier and modulator
StopTime(startTime, dur) == startTime + dur + 10

\* variant: the delay scaled by 10000 instead of 1000
CleanupDelayTenfold(dur) == (dur + 20) * 10

\* the setTimeout delay (dur + 0.2) * 1000 ms
CleanupDelay(dur) == dur + 20

RECURSIVE SortByDue(_)
\* the timers of `all` (in the order they were set) in firing order: by due
\* time, equal due times in the order they were set
SortByDue(all) ==
    IF all = <<>> THEN <<>>
    ELSE LET first == CHOOSE d \in {all[j].due : j \in 1..Len(all)} :
                        \A j \in 1..Len(all) : d <= all[j].due
             IsFirst(g) == g.due = first
             IsLater(g) == g.due # first
         IN  SelectSeq(all, IsFirst) \o SortByDue(SelectSeq(all, IsLater))

\* setTimeout for each timer of `made`, set after those of q
SetTimeouts(q, made) == SortByDue(q \o made)

\* variant: playGrain without the null guard of line 59
PlayGrainUnguarded(s, startTime, durDraw, now) ==
    LET dur == GrainDur(durDraw)
    IN  << [start |-> startTime, dur |-> dur, stop |-> StopTime(startTime, dur),
            due |-> now + CleanupDelay(dur)] >>

\* playGrain(startTime) (lines 58-140), called at time `now`: the grains it
\* adds, none or one.  It connects the grain's nodes to masterGain, schedules
\* start and stop, and sets the cleanup timer that disconnects them.  Filter,
\* carrier, modulator and pan settings draw further random numbers that
\* change no time.
PlayGrain(s, startTime, durDraw, now) ==
    IF ~Ready(s) THEN <<>>
    ELSE LET dur == GrainDur(durDraw)
         IN  << [start |-> startTime, dur |-> dur, stop |-> StopTime(startTime, dur),
                 due |-> now + CleanupDelay(dur)] >>

RECURSIVE BurstLoop(_, _, _, _)
\* the loop `for (let i = 0; i < density; i++)` of playMagicBurst: the grains
\* of passes 1..i
BurstLoop(s, now, r, i) ==
    IF i = 0 THEN <<>>
    ELSE BurstLoop(s, now, r, i - 1)
           \o PlayGrain(s, now + BurstOffset(r.offset[i]), r.dur[i], now)

\* playMagicBurst() (lines 143-158); `now` is ctx.currentTime
PlayMagicBurst(q, s, now, r) ==
    IF ~s.ctx THEN q ELSE SetTimeouts(q, BurstLoop(s, now, r, density))

(***************************************************************************)
(* Particle integrator: lines 323-358 of the useFrame callback.            *)
(***************************************************************************)
\* `const diffusion = 1 + (energyBurst * 0.4)`
Diffusion(energyBurst) == Unit + Trunc(energyBurst * 4, 10)

\* `energyBurst > 0.1 && Math.random() < 0.01`
Kicked(energyBurst, sparkDraw) == energyBurst > 100 /\ sparkDraw * 100 < 10

\* `(Math.random() - 0.5) * energyBurst * 4`
Impulse(energyBurst, d) == Mul(d * 100 - 500, energyBurst) * 4

\* variant: the spring pull not multiplied by eases[i]
VelocityAfterNoEase(p, a, beatScale, energyBurst, sparkDraw, impulseDraws) ==
    LET target == Mul(Mul(p.basePosition[a], beatScale), Diffusion(energyBurst))
        pulled == p.velocity[a] + (target - p.position[a])
        kicked == IF Kicked(energyBurst, sparkDraw)
                  THEN pulled + Impulse(energyBurst, impulseDraws[a])
                  ELSE pulled
    IN  Mul(kicked, p.friction)

\* velocities[i3 + a] after one pass of the loop body
VelocityAfter(p, a, beatScale, energyBurst, sparkDraw, impulseDraws) ==
    LET target == Mul(Mul(p.basePosition[a], beatScale), Diffusion(energyBurst))
        pulled == p.velocity[a] + Mul(target - p.position[a], p.ease)
        kicked == IF Kicked(energyBurst, sparkDraw)
                  THEN pulled + Impulse(energyBurst, impulseDraws[a])
                  ELSE pulled
    IN  Mul(kicked, p.friction)

\* variant: the loop body scales basePositions in place
IntegrateParticleRebase(p, beatScale, energyBurst, sparkDraw, impulseDraws) ==
    LET v == [a \in Axes |->
                VelocityAfter(p, a, beatScale, energyBurst, sparkDraw, impulseDraws)]
    IN  [p EXCEPT !.velocity = v,
                  !.position = [a \in Axes |-> p.position[a] + v[a]],
                  !.basePosition = [a \in Axes |-> Mul(p.basePosition[a], beatScale)]]

\* one pass of the loop body for particle p
IntegrateParticle(p, beatScale, energyBurst, sparkDraw, impulseDraws) ==
    LET v == [a \in Axes |->
                VelocityAfter(p, a, beatScale, energyBurst, sparkDraw, impulseDraws)]
    IN  [p EXCEPT !.velocity = v,
                  !.position = [a \in Axes |-> p.position[a] + v[a]]]

\* Math.sin(x) and Math.cos(x) for x in thousandths of a radian, by their
\* Taylor polynomials (exact to a thousandth for 0 <= x <= 1000)
Sin(x) ==
    LET x3 == Trunc(x * x * x, 1000000)
    IN  x - Trunc(x3, 6) + Trunc(Trunc(x3 * x * x, 1000000), 120)

Cos(x) ==
    LET x2 == Trunc(x * x, 1000)
    IN  Unit - Trunc(x2, 2) + Trunc(Trunc(x2 * x2, 1000), 24)

\* lines 320-321: rotation.y = sin(time * 0.2) * 0.3, rotation.z = cos(time * 0.15) * 0.05
Rotation(time) ==
    [y |-> Mul(Sin(2 * time), 300), z |-> Mul(Cos(Trunc(3 * time, 2)), 50)]

(***************************************************************************)
(* Initial states: the component after mount (lines 161-280).              *)
(***************************************************************************)
Zero3 == [a \in Axes |-> 0]

\* A particle whose scatter position and base position are both the origin:
\* its spring target is the origin in every phase.
RestingParticle ==
    [position |-> Zero3, velocity |-> Zero3, basePosition |-> Zero3,
     friction |-> 850, ease |-> 120, phase |-> 0,
     color |-> <<1000, 200, 800>>, size |-> 500]

\* Particles as the sampler leaves them: a scatter position in the cube
\* [-25, 25)^3, zero velocity, a base position near the heart curve,
\* friction in [0.85, 0.90), ease in [0.12, 0.27).
SampledParticles ==
    { [position |-> <<-25000, 5000, 20000>>, velocity |-> Zero3,
       basePosition |-> <<16000, 5000, -1200>>,
       friction |-> 850, ease |-> 120, phase |-> 0,
       color |-> <<1000, 200, 800>>, size |-> 500],
      [position |-> <<0, -10000, 5000>>, velocity |-> Zero3,
       basePosition |-> <<0, -17000, 7200>>,
       friction |-> 895, ease |-> 255, phase |-> 5654,
       color |-> <<400, 40, 340>>, size |-> 1000] }

\* The same particles with the spring switched off (ease = 0), the input of
\* the integrator's degenerate case.
SpringlessParticles == { [p EXCEPT !.ease = 0] : p \in SampledParticles }

\* What Math.random() returns, fixed for the run: offset[i] and dur[i] to the
\* i-th grain of a burst, spark[p] to the kick test of particle p, impulse[p]
\* to its three kick components.
Alternate(x, y) == [i \in 1..density |-> IF i % 2 = 1 THEN x ELSE y]

GrainDraws ==
    { [offset |-> Alternate(0, 9), dur |-> Alternate(9, 0)],
      [offset |-> Alternate(1, 5), dur |-> Alternate(0, 5)] }

CalmDraws ==
    { [offset |-> g.offset, dur |-> g.dur,
       spark |-> [p \in 1..NumParticles |-> 5],
       impulse |-> [p \in 1..NumParticles |-> [a \in Axes |-> 5]]] : g \in GrainDraws }

SparkDraws ==
    { [offset |-> Alternate(0, 9), dur |-> Alternate(9, 0),
       spark |-> sp,
       impulse |-> [p \in 1..NumParticles |-> <<0, 5, 9>>]] :
         sp \in [1..NumParticles -> {0, 5}] }

NoFrame ==
    [time |-> -1, phase |-> "None", prevPhase |-> "None", beatScale |-> Unit,
     energyBurst |-> 0, audio |-> FALSE, latchBefore |-> FALSE, fired |-> FALSE,
     bursts |-> 0, runs |-> 0, cycles |-> 0, audioAlways |-> TRUE, dense |-> TRUE,
     runAudioBefore |-> FALSE, burstAt |-> -1]

InitCommon ==
    /\ audioEnabled = FALSE
    /\ beatTriggered = FALSE
    /\ grains = <<>>
    /\ rotation = [y |-> 0, z |-> 0]
    /\ needsUpdate = FALSE
    /\ obs = NoFrame
    /\ disposed = [at |-> -1, grains |-> {}]

\* Beat and audio: a working engine, from elapsed time 0, resting particles.
Init ==
    /\ InitCommon
    /\ clock = 0
    /\ synth \in {s \in SynthStates : Ready(s)}
    /\ particles = [p \in 1..NumParticles |-> RestingParticle]
    /\ rand \in CalmDraws

\* Integrator: any engine, sampled particles, kicks, mounted late in the run.
InitParticles ==
    /\ InitCommon
    /\ clock = MaxTime - ParticleWindow
    /\ synth \in SynthStates
    /\ particles \in [1..NumParticles -> SampledParticles]
    /\ rand \in SparkDraws

\* Integrator with ease = 0.
InitSpringless ==
    /\ InitCommon
    /\ clock = MaxTime - ParticleWindow
    /\ synth \in {s \in SynthStates : Ready(s)}
    /\ particles \in [1..NumParticles -> SpringlessParticles]
    /\ rand \in SparkDraws

(***************************************************************************)
(* Actions.                                                                *)
(***************************************************************************)
\* What the frame at `time` adds to the observation.
Observe(o, time, audio, latch) ==
    LET tCycle == TCycle(time)
        ph     == Phase(tCycle)
        fires  == FiresBurst(tCycle, audio, latch)
        first  == o.time = -1
    IN  [time |-> time, phase |-> ph, prevPhase |-> o.phase,
         beatScale |-> BeatScale(tCycle), energyBurst |-> EnergyBurst(tCycle),
         audio |-> audio, latchBefore |-> latch, fired |-> fires,
         bursts |-> o.bursts + (IF fires THEN 1 ELSE 0),
         runs |-> o.runs + (IF ph = "Expand" /\ o.phase # "Expand" THEN 1 ELSE 0),
         cycles |-> o.cycles + (IF first \/ time \div cycleLength # o.time \div cycleLength
                                THEN 1 ELSE 0),
         audioAlways |-> o.audioAlways /\ audio,
         dense |-> o.dense /\ (IF first THEN tCycle < expandDuration
                               ELSE time - o.time < expandDuration),
         runAudioBefore |-> o.phase = "Expand" /\ (o.runAudioBefore \/ o.audio),
         burstAt |-> IF fires THEN time ELSE o.burstAt]

\* The useFrame callback (lines 283-361) at time = clock; frame times increase.
\* pointsRef.current is set from the first commit on, so the early return of
\* line 284 is never taken once the component is mounted.  A burst needs
\* audioEnabled, and the toggle that set it has resumed the context, so
\* ctx.currentTime advances with the render clock from the burst on: grain
\* times and timer times are both read on `clock`.
Frame ==
    /\ obs.time < clock
    /\ LET tCycle == TCycle(clock)
           scale  == BeatScale(tCycle)
           energy == EnergyBurst(tCycle)
       IN  /\ grains' = IF FiresBurst(tCycle, audioEnabled, beatTriggered)
                        THEN PlayMagicBurst(grains, synth, clock, rand)
                        ELSE grains
           /\ beatTriggered' = LatchAfter(tCycle, audioEnabled, beatTriggered)
           /\ rotation' = Rotation(clock)
           /\ particles' = [p \in 1..NumParticles |->
                              IntegrateParticle(particles[p], scale, energy,
                                                rand.spark[p], rand.impulse[p])]
           /\ needsUpdate' = TRUE
           /\ obs' = Observe(obs, clock, audioEnabled, beatTriggered)
    /\ UNCHANGED <<clock, audioEnabled, synth, rand, disposed>>

\* toggleAudio (App.tsx lines 17-19) and the effect of lines 179-183
Toggle ==
    /\ audioEnabled' = ~audioEnabled
    /\ synth' = IF audioEnabled' THEN Resume(synth) ELSE synth
    /\ UNCHANGED <<clock, beatTriggered, grains, particles, rotation, needsUpdate,
                   rand, obs, disposed>>

\* The cleanup callbacks (lines 130-139) of the timers that are due: each
\* disconnects the eight nodes of its grain.
TimerFire ==
    /\ grains # <<>>
    /\ Head(grains).due <= clock
    /\ LET Pending(g) == g.due > clock IN grains' = SelectSeq(grains, Pending)
    /\ disposed' = [at |-> clock,
                    grains |-> {grains[k] : k \in {j \in 1..Len(grains) : grains[j].due <= clock}}]
    /\ UNCHANGED <<clock, audioEnabled, synth, beatTriggered, particles, rotation,
                   needsUpdate, rand, obs>>

\* Time passes, up to the next due timer: a timer fires when it is due.
Tick ==
    /\ \E step \in TickSteps :
         LET target == clock - (clock % TickGrid) + step
             next   == IF grains # <<>> THEN Min(target, Head(grains).due) ELSE target
         IN  /\ (grains # <<>> => Head(grains).due > clock)
             /\ next <= MaxTime
             /\ clock' = next
    /\ UNCHANGED <<audioEnabled, synth, beatTriggered, grains, particles, rotation,
                   needsUpdate, rand, obs, disposed>>

Next == Frame \/ Toggle \/ TimerFire \/ Tick

Spec == Init /\ [][Next]_vars

SpecParticles == InitParticles /\ [][Next]_vars

SpecSpringless == InitSpringless /\ [][Next]_vars

(***************************************************************************)
(* Properties.                                                             *)
(***************************************************************************)

\* C1 (as stated): with audioEnabled true on every frame, the number of
\* frames that call playMagicBurst equals the number of beat cycles the
\* frames have entered, however the frames sample time.
C1_OneBurstPerCycleEntered ==
    obs.audioAlways => obs.bursts = obs.cycles

\* C1 (amended): with audioEnabled true on every frame, the number of bursts
\* equals the number of runs of consecutive Expand frames, and so never
\* exceeds the number of cycles entered.
C1_OneBurstPerExpandRun ==
    obs.audioAlways => (obs.bursts = obs.runs /\ obs.bursts <= obs.cycles)

\* irregular, sparse frames over three cycles, audio on throughout
C1_Witness ==
    obs.audioAlways /\ ~obs.dense /\ obs.cycles = 3 /\ obs.bursts = 2

\* C2 (as stated): a burst is fired only on the first Expand frame after a
\* non-Expand frame (or on the first frame of the run).
C2_BurstOnlyOnFirstExpandFrame ==
    obs.fired => (obs.phase = "Expand" /\ obs.prevPhase # "Expand")

\* C2 (amended): a burst is fired only on an Expand frame with audioEnabled
\* true such that no earlier frame of the same run of Expand frames had
\* audioEnabled true.
C2_BurstOnlyOnFirstAudibleExpandFrame ==
    obs.fired => (obs.phase = "Expand" /\ obs.audio /\ ~obs.runAudioBefore)

\* a burst on a later frame of an Expand run, after audio was switched on
C2_Witness ==
    obs.fired /\ obs.prevPhase = "Expand" /\ obs.bursts = 2

\* C3 (as stated): a grain's nodes stay connected until its stop time
\* start + dur + 0.1: no cleanup disconnects a grain before its stop time.
C3_GrainRunsToStopTime ==
    \A g \in disposed.grains : disposed.at >= g.stop

\* C4: one playMagicBurst call on an initialised engine schedules exactly 40
\* grains (all still connected until the first cleanup can be due, 0.3 s
\* after the call), each starting in [now, now + 0.6) with dur in
\* [0.1, 0.4), and no grain is connected later than dur + 0.2 after its start.
C4_BurstShape ==
    /\ (obs.fired /\ Ready(synth) /\ clock < obs.time + 30) => Len(grains) = 40
    /\ \A k \in 1..Len(grains) :
         /\ obs.burstAt <= grains[k].start
         /\ grains[k].start < obs.burstAt + 60
         /\ 10 <= grains[k].dur
         /\ grains[k].dur < 40
         /\ clock <= grains[k].start + grains[k].dur + 20

\* time has passed since a burst whose grains span both ends of the ranges
C4_Witness ==
    /\ obs.fired /\ clock > obs.time /\ Len(grains) = 40
    /\ \E k \in 1..40 : grains[k].start = obs.burstAt /\ grains[k].dur = 37
    /\ \E k \in 1..40 : grains[k].start = obs.burstAt + 54 /\ grains[k].dur = 10

\* C5: with ctx, masterGain or noiseBuffer null, no step creates a grain or a
\* cleanup timer, the engine stays as it is apart from resume, and every
\* frame carries out the particle update, burst frame or not.
C5_DisabledEngineIsNoOp ==
    [][ ~Ready(synth) =>
          /\ grains' = <<>>
          /\ ~Ready(synth')
          /\ (obs'.time # obs.time =>
                \A p \in 1..NumParticles : \A a \in Axes :
                  LET q      == particles[p]
                      target == Mul(Mul(q.basePosition[a], obs'.beatScale),
                                    1000 + Trunc(obs'.energyBurst * 4, 10))
                      pull   == Mul(target - q.position[a], q.ease)
                      kick   == IF obs'.energyBurst > 100 /\ rand.spark[p] = 0
                                THEN Mul(rand.impulse[p][a] * 100 - 500, obs'.energyBurst) * 4
                                ELSE 0
                  IN  /\ particles'[p].velocity[a] = Mul(q.velocity[a] + pull + kick, q.friction)
                      /\ particles'[p].position[a] = q.position[a] + particles'[p].velocity[a]) ]_vars

\* a burst frame on a disabled engine that has a context
C5_Witness ==
    ~Ready(synth) /\ synth.ctx /\ obs.fired /\ obs.bursts = 1
      /\ \E p \in 1..NumParticles : particles[p].velocity # Zero3

C7_StaticBuffersNeverChange ==
    [][ /\ DOMAIN particles' = DOMAIN particles
        /\ \A p \in DOMAIN particles :
             /\ particles'[p].basePosition = particles[p].basePosition
             /\ particles'[p].friction = particles[p].friction
             /\ particles'[p].ease = particles[p].ease
             /\ particles'[p].phase = particles[p].phase
             /\ particles'[p].color = particles[p].color
             /\ particles'[p].size = particles[p].size
        /\ (audioEnabled' # audioEnabled => particles' = particles) ]_vars

\* frames have moved a particle, through a burst frame, with audio toggled on
C7_Witness ==
    /\ audioEnabled /\ obs.fired /\ obs.phase = "Expand"
    /\ \E p \in 1..NumParticles :
         particles[p].velocity # Zero3 /\ particles[p].position # particles[p].basePosition

C9_AtMostOneBurstConnected ==
    Len(grains) <= 40

\* the second burst has just connected its 40 grains
C9_Witness ==
    obs.bursts >= 2 /\ obs.fired /\ Len(grains) = 40 /\ obs.audioAlways

\* C10: with audioEnabled true on every frame and frames less than 0.16 s
\* apart from the start of the run's first cycle on, every cycle entered has
\* had exactly one burst, the burst frame is the first Expand frame of its
\* cycle, and the latch is set exactly while the frames are in Expand.
C10_DenseFramesOneBurstPerCycle ==
    (obs.time >= 0 /\ obs.audioAlways /\ obs.dense) =>
      /\ obs.bursts = obs.cycles
      /\ obs.fired = (obs.phase = "Expand" /\ obs.prevPhase # "Expand")
      /\ beatTriggered = (obs.phase = "Expand")

\* a dense run has reached its third burst
C10_Witness ==
    obs.audioAlways /\ obs.dense /\ obs.bursts = 3 /\ obs.prevPhase = "Expand"

====
